---- MODULE Spec2Model ----
(***************************************************************************)
(* A model of bevy_rcon (src/src/lib.rs): the roster resource RconPlayers, *)
(* the DbRconBannedPlayer entities of the world (the ban store), and the   *)
(* five route handlers of RconPlugin.                                      *)
(*                                                                         *)
(* Spec   : every handler is one action.  The bevy_defer accessors used by *)
(*          the handlers are synchronous and the only await in a handler   *)
(*          is the final index().await, so a handler runs to completion in *)
(*          one poll of the executor.                                      *)
(* SpecI  : the handlers split at their individual world accesses, which   *)
(*          interleave freely, each access a critical section of its own.  *)
(***************************************************************************)
EXTENDS Integers, Sequences, FiniteSets, TLC

\* ---------------------------------------------------------------- bounds
MaxPlayers == 2        \* longest roster the host builds
MaxBans == 3           \* most DbRconBannedPlayer entities alive at once
MaxInFlight == 2       \* most ban_player handlers between their two accesses (SpecI)

\* ---------------------------------------------------------------- inputs
Ids == {"steam_123", "steam_456"}
HostNames == {"Player1"}
FormIds == Ids \cup {""}
FormNames == {"", "Player1", "Player2"}

VARIABLES
    players,      \* RconPlayers.players : Vec<RconPlayer>
    resource,     \* whether the RconPlayers resource is in the world
    bans,         \* DbRconBannedPlayer entities, in query iteration (table row) order
    events,       \* RconPlayerBanned / RconPlayerKicked events sent so far
    last,         \* the last completed request of Spec, with the state it started from
    retaining,    \* SpecI: per id, ban_player handlers that spawned but did not retain yet
    viewer        \* SpecI: the operator's GET request in progress, or its last response

vars == <<players, resource, bans, events, last, retaining, viewer>>

\* ---------------------------------------------------------------- data
RconPlayer(id, name) == [unique_id |-> id, name |-> name]

DbRconBannedPlayerSwapped(id, name) == [unique_id |-> name, name |-> id]

DbRconBannedPlayer(id, name) == [unique_id |-> id, name |-> name]

RconPlayerBanned(player) == [kind |-> "banned", player |-> player]

PlayerIds(ps) == {ps[i].unique_id : i \in 1..Len(ps)}

CountId(s, id) == Cardinality({i \in 1..Len(s) : s[i].unique_id = id})

\* ---------------------------------------------------------------- pure parts of the handlers
\* ban_player: if id.is_empty() || name.is_empty()
IsInvalidBoth(id, name) == id = "" /\ name = ""

IsInvalid(id, name) == id = "" \/ name = ""

\* ban_player: AsyncWorld.spawn_bundle(DbRconBannedPlayer { .. }) -- a new row at the end of the table
SpawnBundleDedup(bs, rec) ==
    IF \E i \in 1..Len(bs) : bs[i].unique_id = rec.unique_id THEN bs ELSE Append(bs, rec)

SpawnBundle(bs, rec) == Append(bs, rec)

\* ban_player: players.players.retain(|player| player.unique_id != id)
RetainMatching(ps, id) == LET Keep(p) == p.unique_id = id IN SelectSeq(ps, Keep)

RetainFirstOnly(ps, id) ==
    LET hit == {i \in 1..Len(ps) : ps[i].unique_id = id}
    IN  IF hit = {} THEN ps
        ELSE LET f == CHOOSE i \in hit : \A j \in hit : i <= j
             IN  SubSeq(ps, 1, f - 1) \o SubSeq(ps, f + 1, Len(ps))

Retain(ps, id) == LET Keep(p) == p.unique_id # id IN SelectSeq(ps, Keep)

\* unban_player: the for loop over the query, up to its break: the first row whose
\* unique_id is id, 0 when the loop ends without a match
FirstMatchOrFirst(bs, id) ==
    LET hit == {i \in 1..Len(bs) : bs[i].unique_id = id}
    IN  IF hit = {} THEN (IF Len(bs) > 0 THEN 1 ELSE 0)
        ELSE CHOOSE i \in hit : \A j \in hit : i <= j

FirstMatch(bs, id) ==
    LET hit == {i \in 1..Len(bs) : bs[i].unique_id = id}
    IN  IF hit = {} THEN 0 ELSE CHOOSE i \in hit : \A j \in hit : i <= j

\* world.despawn(entity): the table swap-removes the row, the last row takes its place
Despawn(bs, i) ==
    LET n == Len(bs) IN [j \in 1..(n - 1) |-> IF j = i THEN bs[n] ELSE bs[j]]

\* unban_player: the command applied to the world
UnbanCommandAll(bs, id) == LET Keep(b) == b.unique_id # id IN SelectSeq(bs, Keep)

UnbanCommand(bs, id) ==
    LET i == FirstMatch(bs, id) IN IF i = 0 THEN bs ELSE Despawn(bs, i)

\* player_item: is_banned = query.iter().next().map(|banned| banned.unique_id == player.unique_id)
\*                               .unwrap_or(false)
IsBanned(bs, player) == IF Len(bs) = 0 THEN FALSE ELSE bs[1].unique_id = player.unique_id

\* list_players: the player-item divs of the fragment, and the warn! lines of player_item
RenderPlayers(ps, bs) == LET Shown(p) == ~IsBanned(bs, p) IN SelectSeq(ps, Shown)

WarnedPlayers(ps, bs) == LET Omitted(p) == IsBanned(bs, p) IN SelectSeq(ps, Omitted)

\* ---------------------------------------------------------------- Spec: one action per handler
NoView == [pc |-> "idle", route |-> "none", snap |-> <<>>, k |-> 0, rendered |-> <<>>]

NoRetaining == [id \in Ids |-> 0]

Done(op, id, name, result, log, rendered, warned) ==
    [op |-> op, id |-> id, name |-> name,
     pre_players |-> players, pre_bans |-> bans, pre_resource |-> resource,
     result |-> result, log |-> log, rendered |-> rendered, warned |-> warned]

\* RconPlugin::build: insert_resource(RconPlayers { players: vec![] }), no ban entity spawned
Init ==
    /\ players = <<>>
    /\ resource = TRUE
    /\ bans = <<>>
    /\ events = <<>>
    /\ last = [op |-> "build", id |-> "", name |-> "",
               pre_players |-> <<>>, pre_bans |-> <<>>, pre_resource |-> TRUE,
               result |-> "none", log |-> "none", rendered |-> <<>>, warned |-> <<>>]
    /\ retaining = NoRetaining
    /\ viewer = NoView

\* GET /
Index ==
    /\ last' = Done("index", "", "", "index", "none", <<>>, <<>>)
    /\ UNCHANGED <<players, resource, bans, events, retaining, viewer>>

\* GET /players : the resource access is unwrap()ed, the query accesses are unwrap_or(false)
ListPlayers ==
    /\ last' = IF resource
               THEN Done("list_players", "", "", "players",
                         IF Len(WarnedPlayers(players, bans)) > 0 THEN "warn" ELSE "none",
                         RenderPlayers(players, bans), WarnedPlayers(players, bans))
               ELSE Done("list_players", "", "", "panic", "none", <<>>, <<>>)
    /\ UNCHANGED <<players, resource, bans, events, retaining, viewer>>

\* GET /ban_list
ListBans ==
    /\ last' = Done("list_bans", "", "", "ban_list", "none", bans, <<>>)
    /\ UNCHANGED <<players, resource, bans, events, retaining, viewer>>

\* POST /ban_player
BanPlayer(id, name) ==
    IF IsInvalid(id, name)
    THEN /\ last' = Done("ban_player", id, name, "index", "warn", <<>>, <<>>)
         /\ UNCHANGED <<players, resource, bans, events, retaining, viewer>>
    ELSE /\ Len(bans) < MaxBans
         /\ bans' = SpawnBundle(bans, DbRconBannedPlayer(id, name))
         /\ players' = IF resource THEN Retain(players, id) ELSE players
         /\ last' = Done("ban_player", id, name, "index",
                         IF resource THEN "none" ELSE "error", <<>>, <<>>)
         /\ UNCHANGED <<resource, events, retaining, viewer>>

\* POST /unban_player/{id}
UnbanPlayer(id) ==
    /\ bans' = UnbanCommand(bans, id)
    /\ last' = Done("unban_player", id, "", "index", "none", <<>>, <<>>)
    /\ UNCHANGED <<players, resource, events, retaining, viewer>>

\* The host maintains the roster: a player connects (a banned one too, which
\* player_item's warning anticipates) ...
AddPlayer(id, name) ==
    /\ resource
    /\ Len(players) < MaxPlayers
    /\ players' = Append(players, RconPlayer(id, name))
    /\ UNCHANGED <<resource, bans, events, retaining, viewer>>

\* ... or disconnects
RemovePlayer(i) ==
    /\ resource
    /\ i \in 1..Len(players)
    /\ players' = SubSeq(players, 1, i - 1) \o SubSeq(players, i + 1, Len(players))
    /\ UNCHANGED <<resource, bans, events, retaining, viewer>>

\* The host owns the world: it can take the resource out (the case in which the
\* accesses of list_players and ban_player return Err) and put a fresh one back
RemoveResource ==
    /\ resource
    /\ resource' = FALSE
    /\ players' = <<>>
    /\ UNCHANGED <<bans, events, retaining, viewer>>

InsertResource ==
    /\ ~resource
    /\ resource' = TRUE
    /\ players' = <<>>
    /\ UNCHANGED <<bans, events, retaining, viewer>>

HostAdd(id, name) ==
    /\ AddPlayer(id, name)
    /\ last' = Done("host", id, name, "none", "none", <<>>, <<>>)

HostRemove(i) ==
    /\ RemovePlayer(i)
    /\ last' = Done("host", "", "", "none", "none", <<>>, <<>>)

HostRemoveResource ==
    /\ RemoveResource
    /\ last' = Done("host", "", "", "none", "none", <<>>, <<>>)

HostInsertResource ==
    /\ InsertResource
    /\ last' = Done("host", "", "", "none", "none", <<>>, <<>>)

Next ==
    \/ Index
    \/ ListPlayers
    \/ ListBans
    \/ \E id \in FormIds, name \in FormNames : BanPlayer(id, name)
    \/ \E id \in Ids : UnbanPlayer(id)
    \/ \E id \in Ids, name \in HostNames : HostAdd(id, name)
    \/ \E i \in 1..MaxPlayers : HostRemove(i)
    \/ HostRemoveResource
    \/ HostInsertResource

Spec == Init /\ [][Next]_vars

\* ---------------------------------------------------------------- SpecI: one action per world access
RECURSIVE SumOver(_, _)
SumOver(f, S) == IF S = {} THEN 0 ELSE LET x == CHOOSE y \in S : TRUE IN f[x] + SumOver(f, S \ {x})

InFlight == SumOver(retaining, Ids)

View(pc, route, snap, k, rendered) ==
    [pc |-> pc, route |-> route, snap |-> snap, k |-> k, rendered |-> rendered]

\* GET / : no world access
IndexI ==
    /\ viewer.pc # "render"
    /\ viewer' = View("done", "index", <<>>, 0, <<>>)
    /\ UNCHANGED <<players, resource, bans, events, last, retaining>>

\* list_players, first access: players.players.clone(), unwrap()ed
ListPlayersClone ==
    /\ viewer.pc # "render"
    /\ viewer' = IF ~resource THEN View("done", "panic", <<>>, 0, <<>>)
                 ELSE IF Len(players) = 0 THEN View("done", "players", <<>>, 0, <<>>)
                 ELSE View("render", "players", players, 1, <<>>)
    /\ UNCHANGED <<players, resource, bans, events, last, retaining>>

\* list_players, then one query access per player of the clone: player_item
PlayerItem ==
    /\ viewer.pc = "render"
    /\ LET p == viewer.snap[viewer.k]
           out == IF IsBanned(bans, p) THEN viewer.rendered ELSE Append(viewer.rendered, p)
       IN  viewer' = IF viewer.k = Len(viewer.snap)
                     THEN View("done", "players", <<>>, 0, out)
                     ELSE View("render", "players", viewer.snap, viewer.k + 1, out)
    /\ UNCHANGED <<players, resource, bans, events, last, retaining>>

\* list_bans: its one query access
ListBansI ==
    /\ viewer.pc # "render"
    /\ viewer' = View("done", "ban_list", <<>>, 0, bans)
    /\ UNCHANGED <<players, resource, bans, events, last, retaining>>

\* ban_player up to and including its first access, the spawn
BanSpawn(id, name) ==
    IF IsInvalid(id, name)
    THEN UNCHANGED vars
    ELSE /\ Len(bans) < MaxBans
         /\ InFlight < MaxInFlight
         /\ bans' = SpawnBundle(bans, DbRconBannedPlayer(id, name))
         /\ retaining' = [retaining EXCEPT ![id] = @ + 1]
         /\ UNCHANGED <<players, resource, events, last, viewer>>

\* ban_player, second access: the retain on the roster resource
BanRetain(id) ==
    /\ retaining[id] > 0
    /\ players' = IF resource THEN Retain(players, id) ELSE players
    /\ retaining' = [retaining EXCEPT ![id] = @ - 1]
    /\ UNCHANGED <<resource, bans, events, last, viewer>>

\* unban_player: its one access, the command
UnbanApply(id) ==
    /\ bans' = UnbanCommand(bans, id)
    /\ UNCHANGED <<players, resource, events, last, retaining, viewer>>

\* a host that checks the ban store before it adds a player
HostAddUnbanned(id, name) ==
    /\ id \notin PlayerIds(bans)
    /\ AddPlayer(id, name)
    /\ UNCHANGED last

HostRemoveI(i) == RemovePlayer(i) /\ UNCHANGED last

HostRemoveResourceI == RemoveResource /\ UNCHANGED last

HostInsertResourceI == InsertResource /\ UNCHANGED last

NextI ==
    \/ IndexI
    \/ ListPlayersClone
    \/ PlayerItem
    \/ ListBansI
    \/ \E id \in FormIds, name \in HostNames \cup {""} : BanSpawn(id, name)
    \/ \E id \in Ids : BanRetain(id)
    \/ \E id \in Ids : UnbanApply(id)
    \/ \E id \in Ids, name \in HostNames : HostAddUnbanned(id, name)
    \/ \E i \in 1..MaxPlayers : HostRemoveI(i)
    \/ HostRemoveResourceI
    \/ HostInsertResourceI

SpecI == Init /\ [][NextI]_vars

\* ---------------------------------------------------------------- properties of Spec
Handlers == {"index", "list_players", "list_bans", "ban_player", "unban_player"}

BanRecords == [unique_id : FormIds, name : FormNames]

CountRec(s, r) == Cardinality({i \in 1..Len(s) : s[i] = r})

ValidBan == last.op = "ban_player" /\ last.id # "" /\ last.name # ""

\* C1: after a ban submission with non-empty unique_id and name, the ban store holds a
\* record with the submitted unique_id and the roster holds no player with that unique_id.
C1_BanInsertsAndRemoves ==
    ValidBan =>
        /\ \E i \in 1..Len(bans) : bans[i].unique_id = last.id
        /\ \A i \in 1..Len(players) : players[i].unique_id # last.id

C1_Witness ==
    /\ ValidBan
    /\ last.pre_players = <<RconPlayer("steam_123", "Player1")>>
    /\ last.pre_bans = <<>>
    /\ last.id = "steam_123" /\ last.name = "Player1"
    /\ players = <<>>
    /\ bans = <<[unique_id |-> "steam_123", name |-> "Player1"]>>

\* C2: the fragment of GET /players shows exactly the roster entries whose unique_id is
\* the unique_id of no ban record, and a warning is recorded for each of the others.
C2_OmitsEveryBanned ==
    (last.op = "list_players" /\ last.result = "players") =>
        LET Free(p) == \A i \in 1..Len(last.pre_bans) : last.pre_bans[i].unique_id # p.unique_id
            Hit(p) == ~Free(p)
        IN  /\ last.rendered = SelectSeq(last.pre_players, Free)
            /\ last.warned = SelectSeq(last.pre_players, Hit)

\* C3: a valid ban that removed a player from the roster has sent a RconPlayerBanned
\* event carrying that player.
C3_BanNotifies ==
    (ValidBan /\ last.id \in PlayerIds(last.pre_players)) =>
        \E i \in 1..Len(events) :
            \E j \in 1..Len(last.pre_players) :
                /\ last.pre_players[j].unique_id = last.id
                /\ events[i] = RconPlayerBanned(last.pre_players[j])

\* C4: a ban submission with an empty unique_id or an empty name leaves the ban store and
\* the roster as they were and returns the index page.
C4_InvalidBanChangesNothing ==
    (last.op = "ban_player" /\ (last.id = "" \/ last.name = "")) =>
        /\ players = last.pre_players
        /\ bans = last.pre_bans
        /\ last.result = "index"

C4_Witness ==
    /\ last.op = "ban_player"
    /\ last.id = "" /\ last.name # ""
    /\ Len(last.pre_players) > 0
    /\ Len(last.pre_bans) > 0
    /\ Len(last.pre_bans) < MaxBans

\* C5: an unban of an id the ban store holds removes exactly one record, one with that
\* unique_id; every other record (of another id, or a further one of this id) is kept and
\* the roster is unchanged.
C5_UnbanRemovesOne ==
    (last.op = "unban_player" /\ last.id \in PlayerIds(last.pre_bans)) =>
        /\ \E r \in BanRecords :
              /\ r.unique_id = last.id
              /\ \A x \in BanRecords :
                    CountRec(bans, x) = CountRec(last.pre_bans, x) - (IF x = r THEN 1 ELSE 0)
        /\ Len(bans) = Len(last.pre_bans) - 1
        /\ players = last.pre_players

C5_Witness ==
    /\ last.op = "unban_player"
    /\ CountId(last.pre_bans, last.id) >= 2
    /\ CountId(last.pre_bans, last.id) < Len(last.pre_bans)
    /\ last.pre_bans[1].unique_id = last.id
    /\ Len(players) > 0

\* C6: an unban of an id the ban store does not hold leaves the ban store and the roster
\* as they were and returns the index page.
C6_UnbanAbsentChangesNothing ==
    (last.op = "unban_player" /\ last.id \notin PlayerIds(last.pre_bans)) =>
        /\ bans = last.pre_bans
        /\ players = last.pre_players
        /\ last.result = "index"

C6_Witness ==
    /\ last.op = "unban_player"
    /\ last.id \notin PlayerIds(last.pre_bans)
    /\ Len(last.pre_bans) > 0
    /\ Len(last.pre_players) > 0

\* C7: every valid ban submission adds exactly one record to the ban store, also when
\* the store already holds a record with that unique_id (a second ban makes two).
C7_BanAddsOne ==
    ValidBan =>
        /\ Len(bans) = Len(last.pre_bans) + 1
        /\ CountId(bans, last.id) = CountId(last.pre_bans, last.id) + 1

C7_Witness ==
    /\ ValidBan
    /\ CountId(last.pre_bans, last.id) = 1
    /\ CountId(bans, last.id) = 2

\* C8: every handler completes by returning a page, also when its access to the roster
\* resource fails.
C8_NoFatalPath ==
    last.op \in Handlers => last.result \in {"index", "players", "ban_list"}

\* C9 as claimed: a valid ban whose unique_id matches no roster entry changes neither the
\* roster nor the ban store and returns the index page.
C9_BanOfAbsentIsNoOp ==
    (ValidBan /\ last.id \notin PlayerIds(last.pre_players)) =>
        /\ players = last.pre_players
        /\ bans = last.pre_bans
        /\ last.result = "index"

\* C9 amended: a valid ban whose unique_id matches no roster entry leaves the roster
\* unchanged and returns the index page, and adds the submitted record to the ban store.
C9_BanOfAbsentOnlyInserts ==
    (ValidBan /\ last.id \notin PlayerIds(last.pre_players)) =>
        /\ players = last.pre_players
        /\ bans = Append(last.pre_bans, [unique_id |-> last.id, name |-> last.name])
        /\ last.result = "index"

C9_Witness ==
    /\ ValidBan
    /\ last.pre_resource
    /\ Len(last.pre_players) > 0
    /\ last.id \notin PlayerIds(last.pre_players)
    /\ Len(last.pre_bans) > 0

\* ---------------------------------------------------------------- properties of SpecI
\* C10 as claimed: in every state of every interleaving of the accesses, with a host that
\* adds no banned id, no roster entry has a unique_id that occurs in the ban store.
C10_NoRosterEntryBanned ==
    \A i \in 1..Len(players) : players[i].unique_id \notin PlayerIds(bans)

\* C10 amended: in every such state, a roster entry whose unique_id occurs in the ban
\* store is the target of a ban_player handler that has spawned the ban record and has
\* not yet done its retain on the roster.
C10_BannedInRosterOnlyWhileRetaining ==
    \A i \in 1..Len(players) :
        players[i].unique_id \in PlayerIds(bans) => retaining[players[i].unique_id] > 0

C10_Witness ==
    \E id \in Ids :
        /\ retaining[id] > 0
        /\ id \in PlayerIds(players)
        /\ id \in PlayerIds(bans)
        /\ viewer.pc = "render"
        /\ id \in PlayerIds(viewer.snap)

====
